---- MODULE Spec2Model ----
(***************************************************************************)
(* Model of the spam detector API server (server.js): the keyword          *)
(* classifier analyzeSpam, the POST /api/spam/check handler with its two    *)
(* suspension points (SpamCheck.create and transporter.sendMail), and the   *)
(* GET /api/spam/history handler over the SpamCheck collection.             *)
(*                                                                         *)
(* Strings are sequences of one-character strings.  An optional value      *)
(* (a JSON field that may be missing, an unset environment variable) is a   *)
(* sequence of length 0 or 1.  A Number x is held as the integer x * Scale. *)
(***************************************************************************)
EXTENDS Integers, Sequences, FiniteSets, TLC

\* ------------------------------------------------------------------ bounds
MaxRequests == 2   \* requests received in a run of Spec
MaxClock == 1      \* last value of the millisecond clock
MaxFrags == 2      \* fragments concatenated into a submitted text
HistPrefill == 9   \* documents already in the collection in InitHist
HistRequests == 2  \* requests received in a run of SpecHist

\* ------------------------------------------------------- program constants
ScoreDivisor == 5
Hundred == 100
NotifyPercent == 40
HistoryLimit == 10
TruncateOver == 80
TruncateKeep == 77
Scale == 100

None == <<>>
Some(v) == <<v>>

\* ---------------------------------------------------------------- strings
UpperChars ==
  <<"A","B","C","D","E","F","G","H","I","J","K","L","M",
    "N","O","P","Q","R","S","T","U","V","W","X","Y","Z">>
LowerChars ==
  <<"a","b","c","d","e","f","g","h","i","j","k","l","m",
    "n","o","p","q","r","s","t","u","v","w","x","y","z">>

\* the lower-case letter of every upper-case letter
LowerOf ==
  [u \in {UpperChars[i] : i \in 1..Len(UpperChars)} |->
     LowerChars[CHOOSE i \in 1..Len(UpperChars) : UpperChars[i] = u]]

ToLowerChar(c) == IF c \in DOMAIN LowerOf THEN LowerOf[c] ELSE c

\* String.prototype.toLowerCase
toLowerCase(s) == [i \in 1..Len(s) |-> ToLowerChar(s[i])]

\* String.prototype.includes
includes(hay, needle) ==
  \E i \in 0..(Len(hay) - Len(needle)) : SubSeq(hay, i + 1, i + Len(needle)) = needle

IsWhiteSpace(c) == c \in {" ", "\t", "\n", "\r"}

\* String.prototype.trim
trim(s) ==
  IF \A i \in 1..Len(s) : IsWhiteSpace(s[i])
  THEN <<>>
  ELSE LET first == CHOOSE i \in 1..Len(s) :
                      /\ ~IsWhiteSpace(s[i])
                      /\ \A j \in 1..(i - 1) : IsWhiteSpace(s[j])
           last  == CHOOSE i \in 1..Len(s) :
                      /\ ~IsWhiteSpace(s[i])
                      /\ \A j \in (i + 1)..Len(s) : IsWhiteSpace(s[j])
       IN  SubSeq(s, first, last)

\* String.prototype.slice(0, n)
slice0(s, n) == SubSeq(s, 1, IF n < Len(s) THEN n ELSE Len(s))

MathMin(a, b) == IF a <= b THEN a ELSE b

\* ------------------------------------------------------------- classifier
SPAM_KEYWORDS ==
  << <<"f","r","e","e">>,
     <<"w","i","n">>,
     <<"w","i","n","n","e","r">>,
     <<"p","r","i","z","e">>,
     <<"c","o","n","g","r","a","t","u","l","a","t","i","o","n","s">>,
     <<"c","l","i","c","k"," ","h","e","r","e">>,
     <<"l","o","t","t","e","r","y">>,
     <<"c","a","s","h">>,
     <<"u","r","g","e","n","t">>,
     <<"o","f","f","e","r">>,
     <<"l","i","m","i","t","e","d"," ","t","i","m","e">>,
     <<"b","u","y"," ","n","o","w">> >>

\* keywordMatches with a fault: the text is not lower-cased first
keywordMatchesCaseSensitive(text, word) == includes(text, word)

\* the test of the forEach callback: lower.includes(word)
keywordMatches(text, word) == includes(toLowerCase(text), word)

RECURSIVE forEachKeyword(_, _, _)
\* SPAM_KEYWORDS.forEach from index k on, pushing onto matched
forEachKeyword(text, k, matched) ==
  IF k > Len(SPAM_KEYWORDS)
  THEN matched
  ELSE forEachKeyword(text, k + 1,
         IF keywordMatches(text, SPAM_KEYWORDS[k])
         THEN Append(matched, SPAM_KEYWORDS[k])
         ELSE matched)

\* spamProbability with a fault: the cap at 1 is missing
spamProbabilityUncapped(score) == (score * Scale) \div ScoreDivisor

\* Math.min(1, score / 5)
spamProbability(score) == MathMin(1 * Scale, (score * Scale) \div ScoreDivisor)

\* probability >= 0.5 ? "spam" : "not_spam"
spamVerdict(probability) ==
  IF probability * 2 >= 1 * Scale THEN "spam" ELSE "not_spam"

analyzeSpam(text) ==
  LET matched     == forEachKeyword(text, 1, <<>>)
      score       == Len(matched)
      probability == spamProbability(score)
  IN  [result          |-> spamVerdict(probability),
       probability     |-> probability,
       matchedKeywords |-> matched]

\* ------------------------------------------------------------------ state
VARIABLES
  reqs,       \* the POST /api/spam/check requests received so far, in order
  store,      \* the SpamCheck collection, in insertion order
  clock,      \* Date.now()
  defaultTo,  \* process.env.ALERT_DEFAULT_TO
  history     \* the last response of GET /api/spam/history

vars == <<reqs, store, clock, defaultTo, history>>

\* JavaScript truthiness of an optional string
truthy(opt) == opt # None /\ opt[1] # ""
truthyText(opt) == opt # None /\ opt[1] # <<>>

\* invalidText with a fault: the text is not trimmed
invalidTextNoTrim(text) == ~truthyText(text)

\* !text || !text.trim()
invalidText(text) == ~truthyText(text) \/ trim(text[1]) = <<>>

\* shouldNotify with a fault: the default recipient is not consulted
shouldNotifyCallerOnly(notifyEmail, probability) ==
  /\ truthy(notifyEmail)
  /\ (probability * Hundred) \div Scale >= NotifyPercent

\* (notifyEmail || process.env.ALERT_DEFAULT_TO) && probability * 100 >= 40
shouldNotify(notifyEmail, probability) ==
  /\ (truthy(notifyEmail) \/ truthy(defaultTo))
  /\ (probability * Hundred) \div Scale >= NotifyPercent

\* Math.round(probability * 100)
percentOf(probability) == (probability * Hundred + (Scale \div 2)) \div Scale

\* the mailOptions that sendAlertEmail hands to transporter.sendMail
mailOptions(r) ==
  [to       |-> IF truthy(r.notifyEmail) THEN r.notifyEmail ELSE defaultTo,
   percent  |-> percentOf(r.analysis[1].probability),
   keywords |-> r.analysis[1].matchedKeywords,
   text     |-> r.text[1]]

\* the document that SpamCheck.create constructs and inserts
newDoc(r) ==
  [id              |-> r.doc[1].id,
   text            |-> r.text[1],
   result          |-> r.analysis[1].result,
   spamProbability |-> r.analysis[1].probability,
   matchedKeywords |-> r.analysis[1].matchedKeywords,
   createdAt       |-> r.doc[1].createdAt]

\* res.json({ id, result, spamProbability, matchedKeywords, createdAt })
okResponse(r) ==
  [status |-> 200,
   body   |-> [id              |-> r.doc[1].id,
               result          |-> r.analysis[1].result,
               spamProbability |-> r.analysis[1].probability,
               matchedKeywords |-> r.analysis[1].matchedKeywords,
               createdAt       |-> r.doc[1].createdAt]]

badRequest == [status |-> 400, body |-> [message |-> "Text is required"]]
serverError == [status |-> 500, body |-> [message |-> "Server error"]]

\* the next _id: one more than every id handed out so far
nextId ==
  LET used == {store[i].id : i \in 1..Len(store)} \cup
              {reqs[i].doc[1].id : i \in {j \in 1..Len(reqs) : reqs[j].doc # None}}
  IN  IF used = {} THEN 1 ELSE 1 + (CHOOSE m \in used : \A u \in used : u <= m)

\* ------------------------------------------------- POST /api/spam/check
\* The handler up to its first await: validation, analyzeSpam and the
\* construction of the document (createdAt defaults to Date.now).
postCheck(text, notifyEmail, maxRequests) ==
  /\ Len(reqs) < maxRequests
  /\ LET base == [pc |-> "responded", text |-> text, notifyEmail |-> notifyEmail,
                  analysis |-> None, doc |-> None, persisted |-> FALSE,
                  mail |-> None, mailOutcome |-> "none", response |-> None]
     IN  IF invalidText(text)
         THEN reqs' = Append(reqs, [base EXCEPT !.response = Some(badRequest)])
         ELSE reqs' = Append(reqs,
                [base EXCEPT !.pc = "creating",
                             !.analysis = Some(analyzeSpam(text[1])),
                             !.doc = Some([id |-> nextId, createdAt |-> clock])])
  /\ UNCHANGED <<store, clock, defaultTo, history>>

\* SpamCheck.create resolves: the document is in the collection; the
\* handler evaluates shouldNotify and either calls sendAlertEmail, which
\* suspends on transporter.sendMail, or responds.
createResolved(i) ==
  /\ reqs[i].pc = "creating"
  /\ store' = Append(store, newDoc(reqs[i]))
  /\ LET r == [reqs[i] EXCEPT !.persisted = TRUE]
     IN  IF shouldNotify(r.notifyEmail, r.analysis[1].probability)
         THEN reqs' = [reqs EXCEPT ![i] = [r EXCEPT !.pc = "mailing",
                                                    !.mail = Some(mailOptions(r)),
                                                    !.mailOutcome = "pending"]]
         ELSE reqs' = [reqs EXCEPT ![i] = [r EXCEPT !.pc = "responded",
                                                    !.response = Some(okResponse(r))]]
  /\ UNCHANGED <<clock, defaultTo, history>>

\* createRejected with a fault: the error is swallowed and the handler goes on
createRejectedSwallowed(i) ==
  /\ reqs[i].pc = "creating"
  /\ reqs' = [reqs EXCEPT ![i] = [@ EXCEPT !.pc = "responded",
                                           !.response = Some(okResponse(reqs[i]))]]
  /\ UNCHANGED <<store, clock, defaultTo, history>>

\* SpamCheck.create rejects: the outer catch answers 500
createRejected(i) ==
  /\ reqs[i].pc = "creating"
  /\ reqs' = [reqs EXCEPT ![i] = [@ EXCEPT !.pc = "responded",
                                           !.response = Some(serverError)]]
  /\ UNCHANGED <<store, clock, defaultTo, history>>

\* transporter.sendMail resolves: sendAlertEmail returns, the handler responds
sendMailResolved(i) ==
  /\ reqs[i].pc = "mailing"
  /\ reqs' = [reqs EXCEPT ![i] = [@ EXCEPT !.pc = "responded", !.mailOutcome = "sent",
                                           !.response = Some(okResponse(reqs[i]))]]
  /\ UNCHANGED <<store, clock, defaultTo, history>>

\* sendMailRejected with a fault: the error reaches the outer catch
sendMailRejectedPropagates(i) ==
  /\ reqs[i].pc = "mailing"
  /\ reqs' = [reqs EXCEPT ![i] = [@ EXCEPT !.pc = "responded", !.mailOutcome = "failed",
                                           !.response = Some(serverError)]]
  /\ UNCHANGED <<store, clock, defaultTo, history>>

\* transporter.sendMail rejects: the inner catch logs, the handler responds
sendMailRejected(i) ==
  /\ reqs[i].pc = "mailing"
  /\ reqs' = [reqs EXCEPT ![i] = [@ EXCEPT !.pc = "responded", !.mailOutcome = "failed",
                                           !.response = Some(okResponse(reqs[i]))]]
  /\ UNCHANGED <<store, clock, defaultTo, history>>

\* a millisecond passes
Tick ==
  /\ clock < MaxClock
  /\ clock' = clock + 1
  /\ UNCHANGED <<reqs, store, defaultTo, history>>

\* ------------------------------------------------ GET /api/spam/history
RECURSIVE sortOrders(_, _)
\* sort({ createdAt: -1 }) over the documents at the indices S: every order
\* with createdAt non-increasing (the order among equal keys is not fixed
\* by the query)
sortOrders(docs, S) ==
  IF S = {}
  THEN {<<>>}
  ELSE LET newest == {i \in S : \A j \in S : docs[j].createdAt <= docs[i].createdAt}
       IN  UNION {{<<docs[i]>> \o rest : rest \in sortOrders(docs, S \ {i})} : i \in newest}

\* limit(n)
limit(docs, n) == SubSeq(docs, 1, MathMin(n, Len(docs)))

\* findRecent with a fault: the limit is missing
findRecentUnlimited == sortOrders(store, 1..Len(store))

\* the results SpamCheck.find().sort({ createdAt: -1 }).limit(10) can give
findRecent == {limit(o, HistoryLimit) : o \in sortOrders(store, 1..Len(store))}

Ellipsis == <<".", ".", ".">>

\* truncateText with a fault: 80 characters are kept before the marker
truncateTextKeep80(text) ==
  IF Len(text) > TruncateOver THEN slice0(text, TruncateOver) \o Ellipsis ELSE text

\* d.text.length > 80 ? d.text.slice(0, 77) + "..." : d.text
truncateText(text) ==
  IF Len(text) > TruncateOver THEN slice0(text, TruncateKeep) \o Ellipsis ELSE text

\* the object docs.map builds for one document
historyView(d) ==
  [id              |-> d.id,
   result          |-> d.result,
   spamProbability |-> d.spamProbability,
   matchedKeywords |-> d.matchedKeywords,
   text            |-> truncateText(d.text),
   createdAt       |-> d.createdAt]

\* getHistory with a fault: the truncated texts are written back
getHistoryWritesBack ==
  /\ \E docs \in findRecent :
       history' = Some([status |-> 200,
                        body   |-> [k \in 1..Len(docs) |-> historyView(docs[k])]])
  /\ store' = [k \in 1..Len(store) |->
                 [store[k] EXCEPT !.text = truncateText(store[k].text)]]
  /\ UNCHANGED <<reqs, clock, defaultTo>>

\* the find resolves and the views are sent
getHistory ==
  /\ \E docs \in findRecent :
       history' = Some([status |-> 200,
                        body   |-> [k \in 1..Len(docs) |-> historyView(docs[k])]])
  /\ UNCHANGED <<reqs, store, clock, defaultTo>>

\* the find rejects: the catch answers 500
getHistoryRejected ==
  /\ history' = Some(serverError)
  /\ UNCHANGED <<reqs, store, clock, defaultTo>>

\* ------------------------------------------------------------------ inputs
TextBlank == <<" ", "\t", " ">>
TextFree == <<"f","r","e","e">>
TextWinner == <<"W","I","N","N","E","R">>

\* the text field of the request body: missing, empty, blank, or a message
\* with one keyword (probability 0.2) or two (probability 0.4)
PipelineTexts == {None, Some(<<>>), Some(TextBlank), Some(TextFree), Some(TextWinner)}

\* the notifyEmail field of the request body
NotifyEmails == {None, Some(""), Some("user@example.com")}

\* values of ALERT_DEFAULT_TO
DefaultRecipients == {None, Some("alerts@example.com")}

FragCongrats ==
  <<"C","o","n","g","r","a","t","u","l","a","t","i","o","n","s","!"," ",
    "W","I","N","N","E","R"," ","o","f"," ","C","A","S","H"," ">>
FragFreePrize == <<"F","R","E","E"," ","p","r","i","z","e">>
FragWin == <<"W","i","n">>
FragNer == <<"n","e","r">>
FragClick == <<"c","L","i","c","k">>
FragHere == <<" ","h","e","r","e">>
FragPad40 ==
  <<"T","h","e"," ","q","u","i","c","k"," ","b","r","o","w","n"," ","f","o","x"," ",
    "j","u","m","p","s"," ","o","v","e","r"," ","t","h","e"," ","d","o","g","."," ">>
FragPad41 ==
  <<"P","a","c","k"," ","m","y"," ","b","o","x"," ","w","i","t","h"," ","f","i","v","e",
    " ","d","o","z","e","n"," ","l","i","q","u","o","r"," ","j","u","g","s","."," ">>

Fragments ==
  {FragCongrats, FragFreePrize, FragWin, FragNer, FragClick, FragHere,
   FragPad40, FragPad41}

RECURSIVE Concats(_)
\* the concatenations of at most n fragments
Concats(n) ==
  IF n = 0
  THEN {<<>>}
  ELSE LET shorter == Concats(n - 1)
       IN  shorter \cup {f \o t : f \in Fragments, t \in shorter}

\* messages of 0 to 82 characters holding 0 to 6 keywords
RichTexts == {Some(t) : t \in Concats(MaxFrags)}

TextLong == FragPad40 \o FragPad41 \o FragFreePrize

HistTexts == {Some(TextFree), Some(TextLong)}

\* the document of an earlier request for text, with _id n, created at time at
oldDoc(n, text, at) ==
  LET a == analyzeSpam(text)
  IN  [id |-> n, text |-> text, result |-> a.result, spamProbability |-> a.probability,
       matchedKeywords |-> a.matchedKeywords, createdAt |-> at]

\* --------------------------------------------------------- specifications
Init ==
  /\ reqs = <<>>
  /\ store = <<>>
  /\ clock = 0
  /\ defaultTo \in DefaultRecipients
  /\ history = None

\* the check pipeline under concurrent requests
Next ==
  \/ \E text \in PipelineTexts, notifyEmail \in NotifyEmails :
       postCheck(text, notifyEmail, MaxRequests)
  \/ \E i \in 1..Len(reqs) : createResolved(i)
  \/ \E i \in 1..Len(reqs) : createRejected(i)
  \/ \E i \in 1..Len(reqs) : sendMailResolved(i)
  \/ \E i \in 1..Len(reqs) : sendMailRejected(i)
  \/ Tick

Spec == Init /\ [][Next]_vars

\* one request with a text drawn from RichTexts, and the history
NextText ==
  \/ \E text \in RichTexts : postCheck(text, None, 1)
  \/ \E i \in 1..Len(reqs) : createResolved(i)
  \/ \E i \in 1..Len(reqs) : createRejected(i)
  \/ \E i \in 1..Len(reqs) : sendMailResolved(i)
  \/ \E i \in 1..Len(reqs) : sendMailRejected(i)
  \/ getHistory
  \/ getHistoryRejected

SpecText == Init /\ [][NextText]_vars

\* the server starts on a collection that holds the documents of HistPrefill
\* earlier requests, created one millisecond apart, the last at time 0
InitHist ==
  /\ reqs = <<>>
  /\ store = [n \in 1..HistPrefill |->
                oldDoc(n, IF n = HistPrefill THEN TextLong ELSE TextWinner, n - HistPrefill)]
  /\ clock = 0
  /\ defaultTo = None
  /\ history = None

NextHist ==
  \/ \E text \in HistTexts : postCheck(text, None, HistRequests)
  \/ \E i \in 1..Len(reqs) : createResolved(i)
  \/ \E i \in 1..Len(reqs) : createRejected(i)
  \/ Tick
  \/ getHistory
  \/ getHistoryRejected

SpecHist == InitHist /\ [][NextHist]_vars

\* the database call of every request completes; nothing is assumed of the
\* mail transport, whose call may stay pending for ever
FairSpec ==
  /\ Spec
  /\ \A i \in 1..MaxRequests :
       WF_vars(i <= Len(reqs) /\ (createResolved(i) \/ createRejected(i)))

\* ------------------------------------------------------------------ claims
Responded(r) == r.pc = "responded" /\ r.response # None

\* the response is the 200 response that carries document d
Carries(r, d) ==
  /\ r.response[1].status = 200
  /\ r.response[1].body.id = d.id
  /\ r.response[1].body.result = d.result
  /\ r.response[1].body.spamProbability = d.spamProbability
  /\ r.response[1].body.matchedKeywords = d.matchedKeywords
  /\ r.response[1].body.createdAt = d.createdAt

\* C1: a request whose sendMail call was rejected is answered with the 200
\* response that carries its persisted document, never with a 500.
C1_MailFailureIsAbsorbed ==
  \A i \in 1..Len(reqs) :
    reqs[i].mailOutcome = "failed" =>
      /\ Responded(reqs[i])
      /\ reqs[i].persisted
      /\ \E k \in 1..Len(store) :
           /\ store[k].id = reqs[i].doc[1].id
           /\ store[k].text = reqs[i].text[1]
           /\ Carries(reqs[i], store[k])

C1_Witness ==
  \E i \in 1..Len(reqs) :
    /\ reqs[i].mailOutcome = "failed"
    /\ Responded(reqs[i])
    /\ reqs[i].response[1].status = 200

\* the text is missing, empty or made of white space only
BlankInput(text) == text = None \/ \A j \in 1..Len(text[1]) : IsWhiteSpace(text[1][j])

\* C2: a request whose text is missing, empty or white space only is answered
\* 400 with a message; the classifier is not run for it, no document is
\* constructed or stored for it and no mail is attempted, whatever recipients
\* are given; every stored document belongs to a request with a proper text.
C2_BlankTextIsRejected ==
  /\ \A i \in 1..Len(reqs) :
       BlankInput(reqs[i].text) =>
         /\ Responded(reqs[i])
         /\ reqs[i].response[1].status = 400
         /\ reqs[i].response[1].body.message # ""
         /\ reqs[i].analysis = None
         /\ reqs[i].doc = None
         /\ ~reqs[i].persisted
         /\ reqs[i].mail = None
  /\ \A k \in 1..Len(store) :
       /\ ~BlankInput(Some(store[k].text))
       /\ \E i \in 1..Len(reqs) :
            /\ ~BlankInput(reqs[i].text)
            /\ reqs[i].doc # None
            /\ reqs[i].doc[1].id = store[k].id

C2_Witness ==
  \E i \in 1..Len(reqs) :
    /\ reqs[i].text = Some(TextBlank)
    /\ truthy(reqs[i].notifyEmail)
    /\ truthy(defaultTo)
    /\ Responded(reqs[i])
    /\ reqs[i].response[1].status = 400

\* the create call of the request was rejected
CreateFailed(r) == r.pc = "responded" /\ r.doc # None /\ ~r.persisted

\* C3: a request whose create call was rejected is answered 500 with a
\* message, no mail is attempted for it and its document is not stored.
C3_PersistenceErrorPropagates ==
  \A i \in 1..Len(reqs) :
    CreateFailed(reqs[i]) =>
      /\ reqs[i].response # None
      /\ reqs[i].response[1].status = 500
      /\ reqs[i].response[1].body.message # ""
      /\ reqs[i].mail = None
      /\ reqs[i].mailOutcome = "none"
      /\ \A k \in 1..Len(store) : store[k].id # reqs[i].doc[1].id

C3_Witness ==
  \E i \in 1..Len(reqs) :
    /\ CreateFailed(reqs[i])
    /\ truthy(reqs[i].notifyEmail)
    /\ Len(reqs[i].analysis[1].matchedKeywords) >= 2
    /\ reqs[i].response[1].status = 500

\* C4: every request whose document is persisted is eventually answered,
\* also when the sendMail call of its notification never completes.
C4_ResponseDoesNotWaitForTransport ==
  \A i \in 1..MaxRequests :
    (i <= Len(reqs) /\ reqs[i].persisted) ~> (i <= Len(reqs) /\ reqs[i].response # None)

\* a recipient is present: given by the caller or configured as the default
RecipientPresent(r) ==
  \/ (r.notifyEmail # None /\ r.notifyEmail[1] # "")
  \/ (defaultTo # None /\ defaultTo[1] # "")

\* C5: for a persisted request, sendMail is called if and only if a recipient
\* is present and at least two keywords matched (probability * 100 >= 40);
\* the mail goes to the caller's recipient when given, else to the default.
C5_NotifyGate ==
  \A i \in 1..Len(reqs) :
    reqs[i].persisted =>
      /\ (reqs[i].mail # None) <=>
           (RecipientPresent(reqs[i]) /\ Len(reqs[i].analysis[1].matchedKeywords) >= 2)
      /\ (Len(reqs[i].analysis[1].matchedKeywords) >= 2) <=>
           (reqs[i].analysis[1].probability * Hundred >= NotifyPercent * Scale)

C5_Witness ==
  /\ \E i \in 1..Len(reqs) :
       /\ reqs[i].persisted
       /\ reqs[i].mail # None
       /\ ~truthy(reqs[i].notifyEmail)
       /\ reqs[i].analysis[1].probability * Hundred = NotifyPercent * Scale
  /\ \E i \in 1..Len(reqs) :
       /\ reqs[i].persisted
       /\ reqs[i].mail = None
       /\ truthy(reqs[i].notifyEmail)
       /\ reqs[i].analysis[1].probability * Hundred < NotifyPercent * Scale

\* probability p and verdict v agree with n matched keywords
ScoreConsistent(p, v, n) ==
  /\ p * ScoreDivisor = (IF n < ScoreDivisor THEN n ELSE ScoreDivisor) * Scale
  /\ 0 <= p /\ p <= 1 * Scale
  /\ (v = "spam") <=> (2 * p >= 1 * Scale)
  /\ (v = "spam") <=> (n >= 3)
  /\ v \in {"spam", "not_spam"}

\* C6: every stored document, every 200 response of a check request and
\* every history view has probability min(1, n / 5) for its n matched
\* keywords, within [0, 1], and is "spam" exactly when the probability is at
\* least 0.5, that is when n >= 3.
C6_ScoreAndVerdict ==
  /\ \A k \in 1..Len(store) :
       ScoreConsistent(store[k].spamProbability, store[k].result,
                       Len(store[k].matchedKeywords))
  /\ \A i \in 1..Len(reqs) :
       (reqs[i].response # None /\ reqs[i].response[1].status = 200) =>
         ScoreConsistent(reqs[i].response[1].body.spamProbability,
                         reqs[i].response[1].body.result,
                         Len(reqs[i].response[1].body.matchedKeywords))
  /\ (history # None /\ history[1].status = 200) =>
       \A k \in 1..Len(history[1].body) :
         ScoreConsistent(history[1].body[k].spamProbability, history[1].body[k].result,
                         Len(history[1].body[k].matchedKeywords))

C6_Witness ==
  /\ \E k \in 1..Len(store) :
       /\ Len(store[k].matchedKeywords) = 6
       /\ store[k].spamProbability = 1 * Scale
       /\ store[k].result = "spam"
  /\ \E i \in 1..Len(reqs) :
       /\ reqs[i].response # None
       /\ reqs[i].response[1].status = 200
       /\ Len(reqs[i].response[1].body.matchedKeywords) = 6

\* the position in the collection of the document with _id n
PositionOf(n) == CHOOSE k \in 1..Len(store) : store[k].id = n

\* views is a createdAt-descending list of at most HistoryLimit documents of
\* the collection, each once, and no document left out is newer than one in it
RecentDescending(views) ==
  /\ Len(views) <= HistoryLimit
  /\ Len(views) = MathMin(HistoryLimit, Len(store))
  /\ \A a \in 1..Len(views) : \E k \in 1..Len(store) : store[k].id = views[a].id
  /\ \A a, b \in 1..Len(views) : a < b => views[a].id # views[b].id
  /\ \A a \in 1..Len(views) : views[a].createdAt = store[PositionOf(views[a].id)].createdAt
  /\ \A a, b \in 1..Len(views) : a < b => views[a].createdAt >= views[b].createdAt
  /\ \A k \in 1..Len(store) :
       (\A a \in 1..Len(views) : views[a].id # store[k].id) =>
         \A a \in 1..Len(views) : store[k].createdAt <= views[a].createdAt

\* equal createdAt is ordered by insertion, the later insertion first, within
\* the list and against the documents left out
TiesByInsertion(views) ==
  /\ \A a, b \in 1..Len(views) :
       (a < b /\ views[a].createdAt = views[b].createdAt) =>
         PositionOf(views[a].id) > PositionOf(views[b].id)
  /\ \A k \in 1..Len(store) :
       (\A a \in 1..Len(views) : views[a].id # store[k].id) =>
         \A a \in 1..Len(views) :
           store[k].createdAt = views[a].createdAt => k < PositionOf(views[a].id)

\* a step of GET /api/spam/history that answers 200
HistoryStep ==
  /\ UNCHANGED <<reqs, store, clock, defaultTo>>
  /\ history' # None
  /\ history'[1].status = 200

\* C7 as stated: the history is at most 10 documents, the most recently
\* created ones, createdAt descending, equal createdAt ordered by insertion
\* with the later insertion first.
C7_HistoryTiesByInsertion ==
  [][HistoryStep => (RecentDescending(history'[1].body) /\ TiesByInsertion(history'[1].body))]_vars

\* C7 amended: the history is at most 10 documents, createdAt descending
\* (equal createdAt in any order), and no document left out was created
\* later than one returned.
C7_HistoryRecentDescending ==
  [][HistoryStep => RecentDescending(history'[1].body)]_vars

C7_Witness ==
  /\ Len(store) > HistoryLimit
  /\ history # None
  /\ history[1].status = 200
  /\ Len(history[1].body) = HistoryLimit
  /\ \E a \in 1..(HistoryLimit - 1) :
       /\ history[1].body[a].createdAt = history[1].body[a + 1].createdAt
       /\ \E k \in 1..Len(store) : store[k].id = history[1].body[a].id

\* C8: every step keeps every stored document, at its position and with all
\* its fields, and a history step leaves the collection as it is.
C8_AppendOnly ==
  [][/\ Len(store') >= Len(store)
     /\ \A k \in 1..Len(store) : store'[k] = store[k]
     /\ HistoryStep => store' = store]_vars

C8_Witness ==
  /\ Len(store) > HistPrefill
  /\ history # None
  /\ history[1].status = 200
  /\ \E a \in 1..Len(history[1].body) :
       /\ Len(history[1].body[a].text) = TruncateOver
       /\ \E k \in 1..Len(store) :
            /\ store[k].id = history[1].body[a].id
            /\ Len(store[k].text) > TruncateOver

\* word occurs in text when letter case is ignored
OccursIgnoringCase(text, word) ==
  \E off \in 0..(Len(text) - Len(word)) :
    \A j \in 1..Len(word) : ToLowerChar(text[off + j]) = ToLowerChar(word[j])

\* the keywords that occur in text, in the order of SPAM_KEYWORDS, each once
ExpectedMatches(text) ==
  LET Occurs(word) == OccursIgnoringCase(text, word)
  IN  SelectSeq(SPAM_KEYWORDS, Occurs)

\* C9: the matched keywords of every stored document and of every 200
\* response are exactly the keywords that occur in the text ignoring case,
\* in lexicon order, each once.
C9_MatchedKeywords ==
  /\ \A k \in 1..Len(store) : store[k].matchedKeywords = ExpectedMatches(store[k].text)
  /\ \A i \in 1..Len(reqs) :
       (reqs[i].response # None /\ reqs[i].response[1].status = 200) =>
         reqs[i].response[1].body.matchedKeywords = ExpectedMatches(reqs[i].text[1])

C9_Witness ==
  \E k \in 1..Len(store) :
    /\ store[k].text = FragWin \o FragNer
    /\ store[k].matchedKeywords = <<SPAM_KEYWORDS[2], SPAM_KEYWORDS[3]>>

\* C10: every history view has a text of at most 80 characters: the first 77
\* characters of the stored text and three dots when the stored text is
\* longer than 80, the stored text itself otherwise.
C10_ViewText ==
  (history # None /\ history[1].status = 200) =>
    \A a \in 1..Len(history[1].body) :
      LET view   == history[1].body[a].text
          stored == store[PositionOf(history[1].body[a].id)].text
      IN  /\ Len(view) <= 80
          /\ Len(stored) > 80 =>
               view = [j \in 1..80 |-> IF j <= 77 THEN stored[j] ELSE "."]
          /\ Len(stored) <= 80 => view = stored

C10_Witness ==
  /\ history # None
  /\ history[1].status = 200
  /\ \E a \in 1..Len(history[1].body) :
       /\ Len(history[1].body[a].text) = 80
       /\ Len(store[PositionOf(history[1].body[a].id)].text) = 81

====
